---- MODULE Spec2Model ----
(***************************************************************************)
(* AssetVerse server (src/index.js): the asset collection, the request     *)
(* collection and the request workflow handlers (create request, approve,  *)
(* reject, return) together with the asset handlers (add, update, delete), *)
(* user registration and the two affiliation queries (HR roster, my team). *)
(*                                                                         *)
(* Every handler is an async function: each `await` on a collection is one *)
(* atomic single-document MongoDB operation, and other handlers may run    *)
(* between two awaits of the same handler.  A handler in flight is a call  *)
(* slot whose pc names the await it is about to perform.                   *)
(***************************************************************************)
EXTENDS Integers, FiniteSets, Sequences, TLC

\* ------------------------------------------------------------------ bounds
MaxAssets == 1
MaxRequests == 1
MaxCalls == 2
MaxQuantity == 1
MaxFaults == 1
\* requests in the workflow-only specification (WorkflowSpec)
WorkflowRequests == 2
\* the round-trip scenario (SeqSpec): an asset of 3 units and 4 requests for it
ScenarioQuantity == 3
ScenarioRequests == 4
\* requests in the team specification (TeamSpec)
TeamRequests == 3
\* requests in the roster specification (RosterSpec)
RosterRequests == 2

AssetIds == 1..MaxAssets
Calls == 1..MaxCalls

\* ------------------------------------------------------------------ values
NULL == "null"
DATE == "date"                 \* any value of `new Date()`: a non-null timestamp
Returnable == "Returnable"
NonReturnable == "Non-returnable"
AssetTypes == {Returnable, NonReturnable}

\* the outcome of a handler: its HTTP status and message
Ok == "Ok"                             \* 200 / 201
NotFound == "NotFound"                 \* 404 'Request not found'
InvalidState == "InvalidState"         \* 400 'Request already processed' / 'Only approved requests can be returned'
InvalidAssetType == "InvalidAssetType" \* 400 'Only returnable assets can be returned'
ServerError == "ServerError"           \* 500 'Server Error' (the catch block)
NoResult == "none"

VARIABLES
  assets,         \* assetsCol: asset _id -> document
  nextAssetId,    \* the next _id insertOne gives an asset
  requests,       \* requestsCol: request _id -> document
  nextRequestId,  \* the next _id insertOne gives a request
  calls,          \* the workflow handlers in flight, one per slot
  faults,         \* number of storage operations that have thrown so far
  users,          \* usersCol: the user documents in insertion order
  registrations   \* the registration handlers in flight, one per slot

vars == <<assets, nextAssetId, requests, nextRequestId, calls, faults, users, registrations>>

\* the local variable `request` of a handler before its findOne
NoSnapshot == [requestStatus |-> "none", assetType |-> "none", assetId |-> 0]

\* A slot with no handler in it.  dec/inc/wrote/noStock record what the
\* handler in the slot has done so far: the number of units it took from
\* (dec) or gave back to (inc) an asset document, whether it wrote the
\* request document, and whether the asset had 0 units when it took one.
IdleCall ==
  [op |-> "none", id |-> 0, pc |-> "idle", request |-> NoSnapshot,
   result |-> NoResult, dec |-> 0, inc |-> 0, wrote |-> FALSE, noStock |-> FALSE]

\* A slot with no registration handler in it.
IdleRegistration == [email |-> NULL, role |-> "none", pc |-> "idle"]

AssetExists(a) == a \in DOMAIN assets
RequestExists(r) == r \in DOMAIN requests

Init ==
  /\ assets = <<>>
  /\ nextAssetId = 1
  /\ requests = <<>>
  /\ nextRequestId = 1
  /\ calls = [c \in Calls |-> IdleCall]
  /\ faults = 0
  /\ users = <<>>
  /\ registrations = [c \in Calls |-> IdleRegistration]

\* ------------------------------------------------------------ asset handlers

\* POST /hr/assets: availableQuantity starts equal to productQuantity
CreateAsset(productType, productQuantity) ==
  /\ productQuantity # 0                      \* !productQuantity -> 400
  /\ assets' = assets @@ (nextAssetId :>
        [productType |-> productType,
         productQuantity |-> productQuantity,
         availableQuantity |-> productQuantity])
  /\ nextAssetId' = nextAssetId + 1
  /\ UNCHANGED <<requests, nextRequestId, calls, faults, users, registrations>>

\* PATCH /hr/assets/:id: productType and productQuantity are optional
\* (productType = NULL, hasQuantity = FALSE: not in the body); a given
\* productQuantity also resets availableQuantity
UpdateAsset(id, productType, hasQuantity, productQuantity) ==
  /\ AssetExists(id)                          \* matchedCount === 0 -> 404
  /\ assets' = [assets EXCEPT ![id] =
        [productType |-> IF productType # NULL THEN productType ELSE @.productType,
         productQuantity |-> IF hasQuantity THEN productQuantity ELSE @.productQuantity,
         availableQuantity |-> IF hasQuantity THEN productQuantity ELSE @.availableQuantity]]
  /\ UNCHANGED <<nextAssetId, requests, nextRequestId, calls, faults, users, registrations>>

\* DELETE /hr/assets/:id
DeleteAsset(id) ==
  /\ AssetExists(id)                          \* deletedCount === 0 -> 404
  /\ assets' = [a \in DOMAIN assets \ {id} |-> assets[a]]
  /\ UNCHANGED <<nextAssetId, requests, nextRequestId, calls, faults, users, registrations>>

\* ------------------------------------------------------------- registration

Roles == {"hr", "employee"}

EmailTaken(email) == \E i \in DOMAIN users : users[i].email = email

\* POST /auth/register/hr and /auth/register/employee, up to the existence
\* check: usersCol.findOne({email}); an email that exists is refused (400) and
\* the handler is over, else the handler goes on to hash the password
RegisterFind(c, email, role) ==
  /\ registrations[c].pc = "idle"
  /\ ~EmailTaken(email)
  /\ registrations' = [registrations EXCEPT ![c] =
        [email |-> email, role |-> role, pc |-> "insert"]]
  /\ UNCHANGED <<assets, nextAssetId, requests, nextRequestId, calls, faults, users>>

\* registration: usersCol.insertOne of the new user, with the role of the route
RegisterInsert(c) ==
  /\ registrations[c].pc = "insert"
  /\ users' = Append(users, [email |-> registrations[c].email,
                              role |-> registrations[c].role])
  /\ registrations' = [registrations EXCEPT ![c] = IdleRegistration]
  /\ UNCHANGED <<assets, nextAssetId, requests, nextRequestId, calls, faults>>

\* ---------------------------------------------------------- create request

\* the company name stored and grouped on when a request names none
UnknownCompany == "Unknown Company"

\* a request body: the fields the handler destructures (NULL: not given) and
\* a requestStatus, which it does not
RequestBody(assetId, assetType, requesterEmail, companyName, hrEmail, requestStatus) ==
  [assetId |-> assetId, assetType |-> assetType, requesterEmail |-> requesterEmail,
   companyName |-> companyName, hrEmail |-> hrEmail, requestStatus |-> requestStatus]

\* a create-request handler that stores the requestStatus of the body
SubmitRequestTrusting(body) ==
  /\ body.requesterEmail # NULL
  /\ requests' = requests @@ (nextRequestId :>
        [assetId |-> body.assetId,
         assetType |-> body.assetType,
         hrEmail |-> body.hrEmail,
         companyName |-> IF body.companyName # NULL THEN body.companyName ELSE UnknownCompany,
         requesterEmail |-> body.requesterEmail,
         requestStatus |-> body.requestStatus,
         approvalDate |-> NULL,
         returnDate |-> NULL,
         processedBy |-> NULL])
  /\ nextRequestId' = nextRequestId + 1
  /\ UNCHANGED <<assets, nextAssetId, calls, faults, users, registrations>>

\* POST /employee/requests: assetId, assetType, requesterEmail, companyName
\* and hrEmail are taken from the body; no collection is read
SubmitRequest(body) ==
  /\ body.requesterEmail # NULL                \* !assetId || !requesterEmail -> 400
  /\ requests' = requests @@ (nextRequestId :>
        [assetId |-> body.assetId,
         assetType |-> body.assetType,
         hrEmail |-> body.hrEmail,              \* hrEmail || null
         companyName |-> IF body.companyName # NULL THEN body.companyName ELSE UnknownCompany,
         requesterEmail |-> body.requesterEmail,
         requestStatus |-> "pending",
         approvalDate |-> NULL,
         returnDate |-> NULL,
         processedBy |-> NULL])
  /\ nextRequestId' = nextRequestId + 1
  /\ UNCHANGED <<assets, nextAssetId, calls, faults, users, registrations>>

\* ------------------------------------------------------- workflow handlers

\* a handler is entered: PATCH /hr/requests/:id/approve, /hr/requests/:id/reject
\* or /employee/requests/:id/return with a request id from the URL.  A slot
\* whose handler has responded is free again.
StartCall(c, op, id) ==
  /\ calls[c].pc \in {"idle", "done"}
  /\ calls' = [calls EXCEPT ![c] = [IdleCall EXCEPT !.op = op, !.id = id, !.pc = "find"]]
  /\ UNCHANGED <<assets, nextAssetId, requests, nextRequestId, faults, users, registrations>>

\* the handler responds
Respond(call, result) == [call EXCEPT !.pc = "done", !.result = result]

\* the fields of the found document the handlers read
Snapshot(doc) ==
  [requestStatus |-> doc.requestStatus, assetType |-> doc.assetType, assetId |-> doc.assetId]

\* an adjustment that is a read followed by a write of the value read plus
\* delta, the read being the one the asset was created with: an adjustment
\* made in between is lost
IncAvailableFromStaleRead(store, assetId, delta) ==
  IF assetId \in DOMAIN store
  THEN [store EXCEPT ![assetId].availableQuantity = store[assetId].productQuantity + delta]
  ELSE store

\* assetsCol.updateOne({_id}, {$inc: {availableQuantity: delta}}): one atomic
\* step; a filter that matches no document changes nothing and is no error
IncAvailable(store, assetId, delta) ==
  IF assetId \in DOMAIN store
  THEN [store EXCEPT ![assetId].availableQuantity = @ + delta]
  ELSE store

\* approve: findOne, then the 404 and the 'already processed' checks
ApproveFind(c) ==
  LET call == calls[c] IN
  /\ call.op = "approve" /\ call.pc = "find"
  /\ calls' = [calls EXCEPT ![c] =
        IF ~RequestExists(call.id) THEN Respond(call, NotFound)
        ELSE IF requests[call.id].requestStatus # "pending"
             THEN Respond([call EXCEPT !.request = Snapshot(requests[call.id])], InvalidState)
             ELSE [call EXCEPT !.request = Snapshot(requests[call.id]), !.pc = "dec"]]
  /\ UNCHANGED <<assets, nextAssetId, requests, nextRequestId, faults, users, registrations>>

\* an approve that checks matchedCount as the asset handlers do and answers
\* 404 when the asset document is gone
ApproveDecrementChecked(c) ==
  LET call == calls[c]
      a == call.request.assetId IN
  /\ call.op = "approve" /\ call.pc = "dec"
  /\ assets' = IncAvailable(assets, a, -1)
  /\ calls' = [calls EXCEPT ![c] =
        IF AssetExists(a)
        THEN [call EXCEPT !.pc = "set", !.dec = 1,
                          !.noStock = assets[a].availableQuantity = 0]
        ELSE Respond(call, NotFound)]
  /\ UNCHANGED <<nextAssetId, requests, nextRequestId, faults, users, registrations>>

\* approve: $inc availableQuantity by -1, whatever the quantity is
ApproveDecrement(c) ==
  LET call == calls[c]
      a == call.request.assetId IN
  /\ call.op = "approve" /\ call.pc = "dec"
  /\ assets' = IncAvailable(assets, a, -1)
  /\ calls' = [calls EXCEPT ![c] =
        [call EXCEPT !.pc = "set",
                     !.dec = IF AssetExists(a) THEN 1 ELSE 0,
                     !.noStock = AssetExists(a) /\ assets[a].availableQuantity = 0]]
  /\ UNCHANGED <<nextAssetId, requests, nextRequestId, faults, users, registrations>>

\* approve: $set requestStatus 'approved', approvalDate, processedBy, by _id alone
ApproveUpdate(c) ==
  LET call == calls[c] IN
  /\ call.op = "approve" /\ call.pc = "set"
  /\ requests' = [requests EXCEPT ![call.id] =
        [@ EXCEPT !.requestStatus = "approved", !.approvalDate = DATE, !.processedBy = "HR"]]
  /\ calls' = [calls EXCEPT ![c] = Respond([call EXCEPT !.wrote = TRUE], Ok)]
  /\ UNCHANGED <<assets, nextAssetId, nextRequestId, faults, users, registrations>>

\* reject: findOne, then the 404 and the 'already processed' checks
RejectFind(c) ==
  LET call == calls[c] IN
  /\ call.op = "reject" /\ call.pc = "find"
  /\ calls' = [calls EXCEPT ![c] =
        IF ~RequestExists(call.id) THEN Respond(call, NotFound)
        ELSE IF requests[call.id].requestStatus # "pending"
             THEN Respond([call EXCEPT !.request = Snapshot(requests[call.id])], InvalidState)
             ELSE [call EXCEPT !.request = Snapshot(requests[call.id]), !.pc = "set"]]
  /\ UNCHANGED <<assets, nextAssetId, requests, nextRequestId, faults, users, registrations>>

\* a reject that also gives a unit back to the request's asset, as if the
\* request had held one
RejectUpdateRestocking(c) ==
  LET call == calls[c] IN
  /\ call.op = "reject" /\ call.pc = "set"
  /\ requests' = [requests EXCEPT ![call.id] =
        [@ EXCEPT !.requestStatus = "rejected", !.approvalDate = DATE, !.processedBy = "HR"]]
  /\ assets' = IncAvailable(assets, call.request.assetId, 1)
  /\ calls' = [calls EXCEPT ![c] = Respond([call EXCEPT !.wrote = TRUE], Ok)]
  /\ UNCHANGED <<nextAssetId, nextRequestId, faults, users, registrations>>

\* reject: $set requestStatus 'rejected', approvalDate, processedBy, by _id alone
RejectUpdate(c) ==
  LET call == calls[c] IN
  /\ call.op = "reject" /\ call.pc = "set"
  /\ requests' = [requests EXCEPT ![call.id] =
        [@ EXCEPT !.requestStatus = "rejected", !.approvalDate = DATE, !.processedBy = "HR"]]
  /\ calls' = [calls EXCEPT ![c] = Respond([call EXCEPT !.wrote = TRUE], Ok)]
  /\ UNCHANGED <<assets, nextAssetId, nextRequestId, faults, users, registrations>>

\* return: findOne, then the 404, the 'only approved' and the 'only returnable' checks
ReturnFind(c) ==
  LET call == calls[c] IN
  /\ call.op = "return" /\ call.pc = "find"
  /\ calls' = [calls EXCEPT ![c] =
        IF ~RequestExists(call.id) THEN Respond(call, NotFound)
        ELSE LET found == [call EXCEPT !.request = Snapshot(requests[call.id])] IN
             IF found.request.requestStatus # "approved" THEN Respond(found, InvalidState)
             ELSE IF found.request.assetType # Returnable THEN Respond(found, InvalidAssetType)
             ELSE [found EXCEPT !.pc = "set"]]
  /\ UNCHANGED <<assets, nextAssetId, requests, nextRequestId, faults, users, registrations>>

\* return: $set requestStatus 'returned', returnDate, by _id alone
ReturnUpdate(c) ==
  LET call == calls[c] IN
  /\ call.op = "return" /\ call.pc = "set"
  /\ requests' = [requests EXCEPT ![call.id] =
        [@ EXCEPT !.requestStatus = "returned", !.returnDate = DATE]]
  /\ calls' = [calls EXCEPT ![c] = [call EXCEPT !.pc = "inc", !.wrote = TRUE]]
  /\ UNCHANGED <<assets, nextAssetId, nextRequestId, faults, users, registrations>>

\* a return that checks matchedCount as the asset handlers do and answers 404
\* when the asset document is gone
ReturnIncrementChecked(c) ==
  LET call == calls[c]
      a == call.request.assetId IN
  /\ call.op = "return" /\ call.pc = "inc"
  /\ assets' = IncAvailable(assets, a, 1)
  /\ calls' = [calls EXCEPT ![c] =
        IF AssetExists(a) THEN Respond([call EXCEPT !.inc = 1], Ok)
        ELSE Respond(call, NotFound)]
  /\ UNCHANGED <<nextAssetId, requests, nextRequestId, faults, users, registrations>>

\* return: $inc availableQuantity by 1 on the request's asset, then respond
ReturnIncrement(c) ==
  LET call == calls[c]
      a == call.request.assetId IN
  /\ call.op = "return" /\ call.pc = "inc"
  /\ assets' = IncAvailable(assets, a, 1)
  /\ calls' = [calls EXCEPT ![c] =
        Respond([call EXCEPT !.inc = IF AssetExists(a) THEN 1 ELSE 0], Ok)]
  /\ UNCHANGED <<nextAssetId, requests, nextRequestId, faults, users, registrations>>

\* the await of a handler throws (a storage or transport fault): the operation
\* is not applied and the catch block answers 500; nothing is undone
CatchError(c) ==
  /\ calls[c].pc \in {"find", "dec", "set", "inc"}
  /\ faults < MaxFaults
  /\ faults' = faults + 1
  /\ calls' = [calls EXCEPT ![c] = Respond(@, ServerError)]
  /\ UNCHANGED <<assets, nextAssetId, requests, nextRequestId, users, registrations>>

\* ------------------------------------------------------- affiliation queries
\* A query handler is evaluated on one state of the collections: its reads
\* with no write between them.

\* requestsCol.find(filter).toArray() reads the documents in _id order
RequestDocs == [i \in 1..(nextRequestId - 1) |-> requests[i]]

\* [...new Set(s)]: the elements of s in order of first occurrence
RECURSIVE Distinct(_)
Distinct(s) ==
  IF s = <<>> THEN <<>>
  ELSE LET front == Distinct(SubSeq(s, 1, Len(s) - 1))
           last == s[Len(s)]
       IN IF \E i \in DOMAIN front : front[i] = last THEN front ELSE Append(front, last)

\* emails = [...new Set(reqs.map(r => r.requesterEmail))]
RequesterEmails(reqs) == Distinct([i \in DOMAIN reqs |-> reqs[i].requesterEmail])

\* email: { $in: emails }
EmailIn(u, emails) == \E i \in DOMAIN emails : emails[i] = u.email

\* a roster that keeps an employee whose request was approved once, whatever
\* became of it
RosterOfEverApproved(hrEmail) ==
  LET approvedReqs == SelectSeq(RequestDocs, LAMBDA r :
        r.hrEmail = hrEmail /\ r.requestStatus \in {"approved", "returned"})
      emails == RequesterEmails(approvedReqs)
  IN IF approvedReqs = <<>> THEN <<>>
     ELSE SelectSeq(users, LAMBDA u : EmailIn(u, emails) /\ u.role = "employee")

\* GET /hr/employees?hrEmail=...: the users with role 'employee' whose email is
\* the requesterEmail of an approved request with that hrEmail
Roster(hrEmail) ==
  LET approvedReqs == SelectSeq(RequestDocs, LAMBDA r :
        r.hrEmail = hrEmail /\ r.requestStatus = "approved")
      emails == RequesterEmails(approvedReqs)
  IN IF approvedReqs = <<>> THEN <<>>
     ELSE SelectSeq(users, LAMBDA u : EmailIn(u, emails) /\ u.role = "employee")

\* the company of a request document as my-team reads it
CompanyOf(req) == IF req.companyName # NULL THEN req.companyName ELSE UnknownCompany

\* the companies of the approved requests, one entry per request
CompanyPerRequest(myApproved) == [i \in DOMAIN myApproved |-> CompanyOf(myApproved[i])]

\* companySet: the companies of the employee's approved requests, each once
CompanySet(myApproved) ==
  Distinct([i \in DOMAIN myApproved |-> CompanyOf(myApproved[i])])

\* GET /employee/my-team/:email: one {companyName, colleagues} per company of
\* the employee's approved requests; colleagues are the users (any role) whose
\* email is the requesterEmail of an approved request of that company,
\* projected on their profile fields
TeamOf(email) ==
  LET myApproved == SelectSeq(RequestDocs, LAMBDA r :
        r.requesterEmail = email /\ r.requestStatus = "approved")
      CompanyReqs(companyName) == SelectSeq(RequestDocs, LAMBDA r :
        r.companyName = companyName /\ r.requestStatus = "approved")
      \* if (companyReqs.length === 0) continue
      companies == SelectSeq(CompanySet(myApproved), LAMBDA co : CompanyReqs(co) # <<>>)
      Colleagues(companyName) ==
        LET emails == RequesterEmails(CompanyReqs(companyName))
            found == SelectSeq(users, LAMBDA u : EmailIn(u, emails))
        IN [i \in DOMAIN found |-> [email |-> found[i].email]]
  IN [i \in DOMAIN companies |->
        [companyName |-> companies[i], colleagues |-> Colleagues(companies[i])]]

\* ------------------------------------------------------------ specification
Ops == {"approve", "reject", "return"}

\* the request ids a client may put in the URL: the ids given out so far and
\* one that names no request
ClientRequestIds == 1..nextRequestId

\* the asset ids a client may put in a request body: ids given out so far
\* (of an asset that exists or of one since deleted)
ClientAssetIds == 1..(nextAssetId - 1)

\* a requestStatus a client may put in a request body
ClientStatuses == {"pending", "approved"}

\* the body of a request by employee e1 to company c1 of HR manager h1
ClientBody(assetId, assetType, requestStatus) ==
  RequestBody(assetId, assetType, "e1", "c1", "h1", requestStatus)

\* the emails, company name and HR email a client may use
Emails == {"e1", "e2"}
CompanyNames == {"c1"}
HrEmails == {"h1"}
HrEmailOf(companyName) == IF companyName = NULL THEN NULL ELSE "h1"

Next ==
  \/ \E t \in AssetTypes, q \in 1..MaxQuantity :
        nextAssetId <= MaxAssets /\ CreateAsset(t, q)
  \/ \E a \in AssetIds, t \in AssetTypes \cup {NULL}, h \in BOOLEAN, q \in 0..MaxQuantity :
        \* a body without productQuantity is one input, whatever q
        (h \/ q = 0) /\ UpdateAsset(a, t, h, q)
  \/ \E a \in AssetIds : DeleteAsset(a)
  \/ \E a \in ClientAssetIds, t \in AssetTypes, s \in ClientStatuses :
        nextRequestId <= MaxRequests /\ SubmitRequest(ClientBody(a, t, s))
  \/ \E c \in Calls, op \in Ops, id \in ClientRequestIds : StartCall(c, op, id)
  \/ \E c \in Calls :
        \/ ApproveFind(c) \/ ApproveDecrement(c) \/ ApproveUpdate(c)
        \/ RejectFind(c) \/ RejectUpdate(c)
        \/ ReturnFind(c) \/ ReturnUpdate(c) \/ ReturnIncrement(c)
        \/ CatchError(c)

Spec == Init /\ [][Next]_vars

\* The request workflow alone: any interleaving of submit, approve, reject and
\* return calls on assets that are created and then neither edited nor
\* deleted, with no storage fault.
WorkflowNext ==
  \/ \E t \in AssetTypes, q \in 1..MaxQuantity :
        nextAssetId <= MaxAssets /\ CreateAsset(t, q)
  \/ \E a \in ClientAssetIds, t \in AssetTypes, s \in ClientStatuses :
        nextRequestId <= WorkflowRequests /\ SubmitRequest(ClientBody(a, t, s))
  \/ \E c \in Calls, op \in Ops, id \in ClientRequestIds : StartCall(c, op, id)
  \/ \E c \in Calls :
        \/ ApproveFind(c) \/ ApproveDecrement(c) \/ ApproveUpdate(c)
        \/ RejectFind(c) \/ RejectUpdate(c)
        \/ ReturnFind(c) \/ ReturnUpdate(c) \/ ReturnIncrement(c)

WorkflowSpec == Init /\ [][WorkflowNext]_vars

\* The round-trip scenario: one client that waits for each response before
\* its next call (slot 1 alone), an asset created with ScenarioQuantity units,
\* requests that carry the asset's own type, no asset edit and no fault.
SeqNext ==
  \/ \E t \in AssetTypes :
        nextAssetId <= MaxAssets /\ CreateAsset(t, ScenarioQuantity)
  \/ \E a \in ClientAssetIds :
        nextRequestId <= ScenarioRequests
          /\ SubmitRequest(ClientBody(a, assets[a].productType, "pending"))
  \/ \E op \in Ops, id \in ClientRequestIds : StartCall(1, op, id)
  \/ ApproveFind(1) \/ ApproveDecrement(1) \/ ApproveUpdate(1)
  \/ RejectFind(1) \/ RejectUpdate(1)
  \/ ReturnFind(1) \/ ReturnUpdate(1) \/ ReturnIncrement(1)

SeqSpec == Init /\ [][SeqNext]_vars

\* The request workflow with calls on distinct requests: as WorkflowNext, but a
\* handler is entered for a request only while no other handler for the same
\* request is in flight.
DistinctNext ==
  \/ \E t \in AssetTypes, q \in 1..MaxQuantity :
        nextAssetId <= MaxAssets /\ CreateAsset(t, q)
  \/ \E a \in ClientAssetIds, t \in AssetTypes, s \in ClientStatuses :
        nextRequestId <= WorkflowRequests /\ SubmitRequest(ClientBody(a, t, s))
  \/ \E c \in Calls, op \in Ops, id \in ClientRequestIds :
        /\ \A d \in Calls \ {c} : calls[d].pc \in {"idle", "done"} \/ calls[d].id # id
        /\ StartCall(c, op, id)
  \/ \E c \in Calls :
        \/ ApproveFind(c) \/ ApproveDecrement(c) \/ ApproveUpdate(c)
        \/ RejectFind(c) \/ RejectUpdate(c)
        \/ ReturnFind(c) \/ ReturnUpdate(c) \/ ReturnIncrement(c)

DistinctSpec == Init /\ [][DistinctNext]_vars

\* Teams: registrations of employees (racing or not) under two emails,
\* requests for a Returnable asset by either email, with or without a company
\* name, and one client that approves them, waiting for each response.
TeamNext ==
  \/ \E q \in 1..MaxQuantity :
        nextAssetId <= MaxAssets /\ CreateAsset(Returnable, q)
  \/ \E c \in Calls, e \in Emails : RegisterFind(c, e, "employee")
  \/ \E c \in Calls : RegisterInsert(c)
  \/ \E a \in ClientAssetIds, e \in Emails, co \in CompanyNames \cup {NULL} :
        nextRequestId <= TeamRequests
          /\ SubmitRequest(RequestBody(a, Returnable, e, co, HrEmailOf(co), "pending"))
  \/ \E id \in ClientRequestIds : StartCall(1, "approve", id)
  \/ ApproveFind(1) \/ ApproveDecrement(1) \/ ApproveUpdate(1)

TeamSpec == Init /\ [][TeamNext]_vars

\* Affiliation over time: registrations (racing or not) of HR managers and
\* employees under two emails, requests as in TeamNext, and one client that
\* approves and returns them, waiting for each response.
RosterNext ==
  \/ \E q \in 1..MaxQuantity :
        nextAssetId <= MaxAssets /\ CreateAsset(Returnable, q)
  \/ \E c \in Calls, e \in Emails, r \in Roles : RegisterFind(c, e, r)
  \/ \E c \in Calls : RegisterInsert(c)
  \/ \E a \in ClientAssetIds, e \in Emails, co \in CompanyNames \cup {NULL} :
        nextRequestId <= RosterRequests
          /\ SubmitRequest(RequestBody(a, Returnable, e, co, HrEmailOf(co), "pending"))
  \/ \E op \in {"approve", "return"}, id \in ClientRequestIds : StartCall(1, op, id)
  \/ ApproveFind(1) \/ ApproveDecrement(1) \/ ApproveUpdate(1)
  \/ ReturnFind(1) \/ ReturnUpdate(1) \/ ReturnIncrement(1)

RosterSpec == Init /\ [][RosterNext]_vars

\* ------------------------------------------------------------------ claims

\* outcomes the specification names and no handler produces
InsufficientInventory == "InsufficientInventory"
Conflict == "Conflict"

Done(c) == calls[c].pc = "done"
Failed(c) == Done(c) /\ calls[c].result # Ok

\* C1: for every asset, in every reachable state,
\* 0 <= availableQuantity <= productQuantity.
C1_InventoryWithinBounds ==
  \A a \in DOMAIN assets :
    /\ 0 <= assets[a].availableQuantity
    /\ assets[a].availableQuantity <= assets[a].productQuantity

\* two approve handlers that both found the same request pending
RacingApproves(c, d) ==
  /\ c # d
  /\ calls[c].op = "approve" /\ calls[d].op = "approve"
  /\ calls[c].id = calls[d].id
  /\ calls[c].request.requestStatus = "pending"
  /\ calls[d].request.requestStatus = "pending"

\* C2: of two concurrent approve calls on the same pending request (neither
\* hit by a storage fault) exactly one answers Ok, the other answers
\* InvalidState or Conflict, and together they take one unit, not two.
C2_ConcurrentApproveOnce ==
  \A c, d \in Calls :
    (RacingApproves(c, d) /\ Done(c) /\ Done(d)
       /\ calls[c].result # ServerError /\ calls[d].result # ServerError) =>
      /\ (calls[c].result = Ok) # (calls[d].result = Ok)
      /\ {calls[c].result, calls[d].result} \subseteq {Ok, InvalidState, Conflict}
      /\ calls[c].dec + calls[d].dec <= 1

\* C3: an approve call that finds availableQuantity = 0 on the request's asset
\* answers InsufficientInventory, takes no unit and does not write the request.
C3_NoApprovalWithoutStock ==
  \A c \in Calls :
    (calls[c].op = "approve" /\ calls[c].noStock /\ Done(c)
       /\ calls[c].result # ServerError) =>
      /\ calls[c].result = InsufficientInventory
      /\ ~calls[c].wrote
      /\ calls[c].dec = 0

\* C4: a return call answers Ok only if it found the request approved and
\* Returnable, a return call that answers InvalidState, InvalidAssetType or
\* NotFound changed nothing, and no two return calls on one request both
\* give a unit back to the asset.
C4_ReturnOnce ==
  /\ \A c \in Calls :
       (calls[c].op = "return" /\ Done(c)) =>
         /\ calls[c].result = Ok =>
              /\ calls[c].request.requestStatus = "approved"
              /\ calls[c].request.assetType = Returnable
         /\ calls[c].result \in {NotFound, InvalidState, InvalidAssetType} =>
              ~calls[c].wrote /\ calls[c].inc = 0
  /\ \A c, d \in Calls :
       (c # d /\ calls[c].op = "return" /\ calls[d].op = "return"
          /\ calls[c].id = calls[d].id) =>
         calls[c].inc + calls[d].inc <= 1

\* the status changes of the state machine
AllowedTransitions ==
  {<<"pending", "approved">>, <<"pending", "rejected">>, <<"approved", "returned">>}

\* C5: a request's status only changes pending -> approved, pending ->
\* rejected or approved -> returned, the last only when its type is Returnable.
C5_StatusTransitions ==
  [][\A r \in DOMAIN requests :
       requests'[r].requestStatus # requests[r].requestStatus =>
         /\ <<requests[r].requestStatus, requests'[r].requestStatus>> \in AllowedTransitions
         /\ requests'[r].requestStatus = "returned" => requests[r].assetType = Returnable]_vars

\* C6: no step of a reject call, from its entry to its response and whatever
\* its outcome, changes the asset collection.
C6_RejectLeavesInventory ==
  [][\A c \in Calls :
       ((calls[c].op = "reject" \/ calls'[c].op = "reject") /\ calls'[c] # calls[c]) =>
         assets' = assets]_vars

\* a reject call wrote 'rejected' and answered Ok while an asset exists
C6_Witness ==
  \E c \in Calls :
    /\ calls[c].op = "reject" /\ Done(c) /\ calls[c].result = Ok /\ calls[c].wrote
    /\ AssetExists(calls[c].request.assetId)

\* C7: a return call (not hit by a storage fault) on a request whose asset
\* document is gone still sets the request to 'returned' with a returnDate,
\* answers Ok, and neither creates nor changes an asset document.
C7_ReturnOfDeletedAsset ==
  [][\A c \in Calls :
       (/\ calls[c].op = "return"
        /\ calls[c].pc \in {"set", "inc"}
        /\ ~AssetExists(calls[c].request.assetId)
        /\ calls'[c] # calls[c]
        /\ calls'[c].result # ServerError) =>
         /\ assets' = assets
         /\ calls[c].pc = "set" =>
              /\ requests'[calls[c].id].requestStatus = "returned"
              /\ requests'[calls[c].id].returnDate # NULL
              /\ calls'[c].pc = "inc"
         /\ calls[c].pc = "inc" =>
              /\ calls'[c].pc = "done"
              /\ calls'[c].result = Ok]_vars

\* a return call answered Ok for a request of a deleted asset, now 'returned'
C7_Witness ==
  \E c \in Calls :
    /\ calls[c].op = "return" /\ Done(c) /\ calls[c].result = Ok
    /\ calls[c].wrote /\ calls[c].inc = 0
    /\ calls[c].request.assetId < nextAssetId
    /\ ~AssetExists(calls[c].request.assetId)
    /\ requests[calls[c].id].requestStatus = "returned"

\* the requests for asset a whose status is s
RequestsOf(a, s) ==
  {r \in DOMAIN requests : requests[r].assetId = a /\ requests[r].requestStatus = s}

\* C8: the round trip, run by one client: on an asset created with 3 units,
\* with 3 requests approved the asset has 0 units left; an approve of a fourth
\* request then answers InsufficientInventory and leaves it pending with 0
\* units; a reject of an approved request answers InvalidState; and the return
\* of one of the three approved requests leaves 1 unit.
C8_RoundTrip ==
  \A a \in DOMAIN assets :
    assets[a].productQuantity = ScenarioQuantity =>
      LET call == calls[1]
          approved == RequestsOf(a, "approved")
          returned == RequestsOf(a, "returned")
          mine == RequestExists(call.id) /\ requests[call.id].assetId = a
      IN
      /\ (Cardinality(approved) = 3 /\ returned = {}
            /\ call.pc \in {"idle", "find", "done"}) =>
           assets[a].availableQuantity = 0
      /\ (call.op = "approve" /\ Done(1) /\ mine /\ call.noStock
            /\ Cardinality(approved \ {call.id}) = 3) =>
           /\ call.result = InsufficientInventory
           /\ requests[call.id].requestStatus = "pending"
           /\ assets[a].availableQuantity = 0
      /\ (call.op = "reject" /\ Done(1) /\ mine
            /\ call.request.requestStatus = "approved") =>
           /\ call.result = InvalidState
           /\ requests[call.id].requestStatus = "approved"
      /\ (call.op = "return" /\ Done(1) /\ mine /\ call.result = Ok
            /\ Cardinality(approved) = 2 /\ returned = {call.id}
            /\ RequestsOf(a, "rejected") = {}) =>
           assets[a].availableQuantity = 1

\* C9: for every request, approvalDate is set exactly when the status is
\* approved, rejected or returned, and returnDate exactly when it is returned.
C9_TimestampsMatchStatus ==
  \A r \in DOMAIN requests :
    /\ requests[r].approvalDate # NULL <=>
         requests[r].requestStatus \in {"approved", "rejected", "returned"}
    /\ requests[r].returnDate # NULL <=> requests[r].requestStatus = "returned"

\* C10: an approve, reject or return call that answers an error has written
\* no request and has neither taken a unit from nor given one to an asset.
C10_ErrorsLeaveNoPartialState ==
  \A c \in Calls :
    Failed(c) => ~calls[c].wrote /\ calls[c].dec = 0 /\ calls[c].inc = 0

\* C12: when an approve and a reject race on one pending request (both found
\* it pending) and the request ends rejected, the approve has given back the
\* unit it took: the asset's quantity is what it was before both calls.
C12_ApproveRollsBack ==
  \A c, d \in Calls :
    (/\ calls[c].op = "approve" /\ calls[d].op = "reject"
     /\ calls[c].id = calls[d].id
     /\ calls[c].request.requestStatus = "pending"
     /\ calls[d].request.requestStatus = "pending"
     /\ Done(c) /\ Done(d)
     /\ requests[calls[c].id].requestStatus = "rejected") =>
      calls[c].dec - calls[c].inc = 0

\* C13: of all approve and reject calls on one request at most one answers Ok,
\* and the request keeps the status that call wrote: 'rejected' after a reject
\* that answered Ok, 'approved' (or, once given back, 'returned') after an
\* approve that answered Ok.
C13_ProcessedOnce ==
  /\ \A c, d \in Calls :
       (/\ c # d
        /\ calls[c].op \in {"approve", "reject"} /\ calls[d].op \in {"approve", "reject"}
        /\ calls[c].id = calls[d].id
        /\ Done(c) /\ Done(d)) =>
         ~(calls[c].result = Ok /\ calls[d].result = Ok)
  /\ \A c \in Calls :
       (Done(c) /\ calls[c].result = Ok) =>
         /\ calls[c].op = "reject" => requests[calls[c].id].requestStatus = "rejected"
         /\ calls[c].op = "approve" =>
              requests[calls[c].id].requestStatus \in {"approved", "returned"}

\* the step of a create-request handler: a request document is inserted
SubmitStep == nextRequestId' = nextRequestId + 1

\* C14: a create-request call stores the new request with status 'pending',
\* approvalDate null and processedBy null, whatever requestStatus the body
\* carries, and leaves every asset document as it was.
C14_SubmitStoresPending ==
  [][SubmitStep =>
       /\ requests'[nextRequestId].requestStatus = "pending"
       /\ requests'[nextRequestId].approvalDate = NULL
       /\ requests'[nextRequestId].processedBy = NULL
       /\ assets' = assets]_vars

\* a request is in the store, pending, and its asset has all its units
C14_Witness ==
  \E r \in DOMAIN requests :
    /\ requests[r].requestStatus = "pending"
    /\ AssetExists(requests[r].assetId)
    /\ assets[requests[r].assetId].availableQuantity = assets[requests[r].assetId].productQuantity

\* C15: a create-request call stores a request only if an asset with the
\* given assetId exists at that moment (else it answers NotFound).
C15_SubmitNeedsAsset ==
  [][SubmitStep => AssetExists(requests'[nextRequestId].assetId)]_vars

\* C16: the assetType stored on a new request is the productType the
\* referenced asset has at that moment.
C16_TypeIsSnapshot ==
  [][(SubmitStep /\ AssetExists(requests'[nextRequestId].assetId)) =>
       requests'[nextRequestId].assetType =
         assets[requests'[nextRequestId].assetId].productType]_vars

\* C17: the availableQuantity of an asset document changes only by -1 in the
\* decrement of an approve call or by +1 in the increment of a return call on
\* a request for that asset.
C17_OnlyApproveAndReturnAdjust ==
  [][\A a \in DOMAIN assets \cap DOMAIN assets' :
       assets'[a].availableQuantity # assets[a].availableQuantity =>
         \E c \in Calls :
           /\ calls[c].request.assetId = a
           /\ \/ /\ calls[c].op = "approve" /\ calls[c].pc = "dec" /\ calls'[c].pc = "set"
                 /\ assets'[a].availableQuantity = assets[a].availableQuantity - 1
              \/ /\ calls[c].op = "return" /\ calls[c].pc = "inc" /\ calls'[c].pc = "done"
                 /\ assets'[a].availableQuantity = assets[a].availableQuantity + 1]_vars

\* the calls of operation op that are at step pc for a request of asset a
CallsAt(op, pc, a) ==
  {c \in Calls : calls[c].op = op /\ calls[c].pc = pc /\ calls[c].request.assetId = a}

\* C18: with the calls in flight all on distinct requests, no adjustment of an
\* asset's availableQuantity is lost, in any interleaving: the quantity is the
\* total less one unit per approved request, per approve call that has taken
\* its unit and not yet written 'approved', and per return call that has
\* written 'returned' and not yet given its unit back.  So N approves and M
\* returns that have all answered Ok changed it by exactly M - N.
C18_AdjustmentsNotLost ==
  \A a \in DOMAIN assets :
    assets[a].availableQuantity =
      assets[a].productQuantity
        - Cardinality(RequestsOf(a, "approved"))
        - Cardinality(CallsAt("approve", "set", a))
        - Cardinality(CallsAt("return", "inc", a))

\* an approve and a return on two requests of one asset are in flight
\* together: the approve has taken its unit, the return has written 'returned'
C18_Witness ==
  \E c, d \in Calls :
    /\ calls[c].op = "approve" /\ calls[c].pc = "set" /\ calls[c].dec = 1
    /\ calls[d].op = "return" /\ calls[d].pc = "inc" /\ calls[d].wrote
    /\ calls[c].id # calls[d].id
    /\ calls[c].request.assetId = calls[d].request.assetId
    /\ AssetExists(calls[c].request.assetId)

\* C19: for every asset (none is edited or deleted here), whenever no approve
\* or return call is in flight, availableQuantity = productQuantity - (number
\* of requests for the asset whose status is approved).
C19_Conservation ==
  (\A c \in Calls :
     calls[c].op \in {"approve", "return"} => calls[c].pc \in {"idle", "done"}) =>
    \A a \in DOMAIN assets :
      assets[a].availableQuantity =
        assets[a].productQuantity - Cardinality(RequestsOf(a, "approved"))

\* the company names a stored request can carry
StoredCompanies == CompanyNames \cup {UnknownCompany}

\* the number of user documents registered under an email
UserCount(email) == Cardinality({i \in DOMAIN users : users[i].email = email})

\* the approved requests by an email at a company
ApprovedAt(email, companyName) ==
  {r \in DOMAIN requests :
     /\ requests[r].requesterEmail = email
     /\ requests[r].companyName = companyName
     /\ requests[r].requestStatus = "approved"}

\* the number of entries of a colleague list with an email
Listed(colleagues, email) ==
  Cardinality({i \in DOMAIN colleagues : colleagues[i].email = email})

ApprovedWith(email, hrEmail) ==
  {r \in DOMAIN requests :
     /\ requests[r].requesterEmail = email
     /\ requests[r].hrEmail = hrEmail
     /\ requests[r].requestStatus = "approved"}

C21_ApproveOfDeletedAsset ==
  [][\A c \in Calls :
       (/\ calls[c].op = "approve"
        /\ calls[c].pc \in {"dec", "set"}
        /\ ~AssetExists(calls[c].request.assetId)
        /\ calls'[c] # calls[c]
        /\ calls'[c].result # ServerError) =>
         /\ assets' = assets
         /\ calls[c].pc = "dec" =>
              /\ calls'[c].pc = "set"
              /\ calls'[c].dec = 0
         /\ calls[c].pc = "set" =>
              /\ requests'[calls[c].id].requestStatus = "approved"
              /\ requests'[calls[c].id].approvalDate # NULL
              /\ calls'[c].pc = "done"
              /\ calls'[c].result = Ok]_vars

\* an approve call answered Ok for a request it found pending, of an asset
\* deleted before the call's decrement; the request is now 'approved'
C21_Witness ==
  \E c \in Calls :
    /\ calls[c].op = "approve" /\ Done(c) /\ calls[c].result = Ok
    /\ calls[c].request.requestStatus = "pending"
    /\ calls[c].wrote /\ calls[c].dec = 0
    /\ calls[c].request.assetId < nextAssetId
    /\ ~AssetExists(calls[c].request.assetId)
    /\ assets = <<>>
    /\ requests[calls[c].id].requestStatus = "approved"
    /\ requests[calls[c].id].approvalDate # NULL

====
